---- MODULE Spec2Model ----
(***************************************************************************)
(* A model of mysql-sniffer.go: the per-source synchronisation state       *)
(* machine (processPacket / handlePacket), the frame carver (carvePacket), *)
(* the tokenizer and canonicalizer (scanToken / cleanupQuery), the         *)
(* latency summary (calculateTimes) and the status report                  *)
(* (handleStatusUpdate with sortableSlice).                                *)
(*                                                                         *)
(* Byte strings ([]byte and string alike) are sequences of byte values.    *)
(* A Go slice is a record [isnil, b] so that the nil test of the source    *)
(* (rs.resbuffer != nil) is kept apart from emptiness.                     *)
(***************************************************************************)
EXTENDS Integers, Sequences, FiniteSets, TLC

VARIABLES
    pc,         \* which operation has been applied (function-level specifications)
    \* ---- configuration globals (flags parsed in main)
    verbose, noclean, dirty, format,
    \* ---- program globals
    chmap,      \* map[string]*source, keyed by source id
    qbuf,       \* map[string]*queryData, keyed by the aggregation text
    querycount, \* total requests counted
    times,      \* global [TIME_BUCKETS]uint64
    stats,      \* packets.rcvd, packets.rcvd_sync, desyncs, streams
    now,        \* the monotonic clock read by time.Now / time.Since
    last,       \* the locals of the most recent processPacket call
    latencies,  \* how many times the latency block of processPacket has run
    \* ---- carvePacket applied to one buffer
    buf0, buf, carved,
    \* ---- cleanupQuery applied to one query
    query, canon, canon2,
    \* ---- the F_ROUTE item of the format applied to the same query
    route,
    \* ---- the token loop of cleanupQuery, one scanToken call at a time
    scanpos, scanned, scans,
    \* ---- calculateTimes applied to one sample array
    timings, summary,
    \* ---- handleStatusUpdate applied to one registry
    displaycount, sortby, cutoff, elapsed, report

vars == <<pc, verbose, noclean, dirty, format, chmap, qbuf, querycount, times,
          stats, now, last, latencies, buf0, buf, carved, query, canon, canon2,
          route, scanpos, scanned, scans, timings, summary, displaycount,
          sortby, cutoff, elapsed, report>>

cfgVars   == <<verbose, noclean, dirty, format>>
progVars  == <<chmap, qbuf, querycount, times, stats, now, last, latencies>>
carveVars == <<buf0, buf, carved>>
canonVars == <<query, canon, canon2, route>>
scanVars  == <<scanpos, scanned, scans>>
sumVars   == <<timings, summary>>
repVars   == <<displaycount, sortby, cutoff, elapsed, report>>

----------------------------------------------------------------------------
(* Program constants.                                                      *)

TOKEN_WORD       == 0
TOKEN_QUOTE      == 1
TOKEN_NUMBER     == 2
TOKEN_WHITESPACE == 3
TOKEN_OTHER      == 4

COM_QUERY == 3

\* F_NONE = iota sits at index 13 of the const block.
F_NONE     == 13
F_QUERY    == 14
F_ROUTE    == 15
F_SOURCE   == 16
F_SOURCEIP == 17

\* The source has TIME_BUCKETS = 10000; the sample arrays are scaled down to
\* this many slots.
TIME_BUCKETS == 2

----------------------------------------------------------------------------
(* Bounds of the model.                                                    *)

MaxBufLen   == 7    \* longest buffer handed to carvePacket on its own
MaxQueryLen == 5    \* longest enumerated query handed to cleanupQuery
MaxSample   == 7    \* largest latency value in a summarised array
MaxPackets  == 3    \* packets delivered to handlePacket
MaxTime     == 2    \* last clock value
NumSources  == 2    \* distinct remote endpoints
MaxDisplay  == 3    \* largest display count handed to handleStatusUpdate
MaxCutoff   == 2    \* largest cutoff (requests per second)
MaxElapsed  == 2    \* most seconds between start and a status update

----------------------------------------------------------------------------
(* Byte strings and slices.                                                *)

SeqsUpTo(S, n) == UNION {[1..k -> S] : k \in 0..n}

NilSlice == [isnil |-> TRUE, b |-> <<>>]

Slice(bytes) == [isnil |-> FALSE, b |-> bytes]

Drop(s, n) == SubSeq(s, n + 1, Len(s))

RECURSIVE Concat(_)
Concat(ss) == IF ss = <<>> THEN <<>> ELSE Head(ss) \o Concat(Tail(ss))

----------------------------------------------------------------------------
(* carvePacket                                                             *)

FrameSize(b) == b[1] + b[2] * 256 + b[3] * 65536

\* As Incomplete, without the test for a declared length of zero.
Incomplete_zeroLengthCarved(b) ==
    \/ Len(b) < 5
    \/ Len(b) < FrameSize(b) + 4

Incomplete(b) ==
    \/ Len(b) < 5
    \/ FrameSize(b) = 0
    \/ Len(b) < FrameSize(b) + 4

\* As Remainder, keeping the last byte of the carved frame.
Remainder_offByOne(b, end) ==
    IF end >= Len(b) THEN NilSlice ELSE Slice(Drop(b, end - 1))

Remainder(b, end) == IF end >= Len(b) THEN NilSlice ELSE Slice(Drop(b, end))

\* carvePacket(buf): the returned (ptype, data) and the buffer left behind.
carvePacket(s) ==
    IF Incomplete(s.b)
    THEN [ptype |-> -1, data |-> NilSlice, buf |-> s]
    ELSE [ptype |-> s.b[5],
          data  |-> Slice(SubSeq(s.b, 6, FrameSize(s.b) + 4)),
          buf   |-> Remainder(s.b, FrameSize(s.b) + 4)]

----------------------------------------------------------------------------
(* scanToken                                                               *)

IsQuoteByte(b) == b = 39 \/ b = 34

IsDigit(b) == b >= 48 /\ b <= 57

IsSpace(b) == b = 32 \/ (b >= 9 /\ b <= 13)

IsLetter(b) == (b >= 65 /\ b <= 90) \/ (b >= 97 /\ b <= 122)

IsWordByte(b) == IsDigit(b) \/ IsLetter(b) \/ b = 36 \/ b = 95

Token(n, t) == [length |-> n, thistype |-> t]

\* The quote loop; i is the 1-based position of the byte under inspection.
RECURSIVE ScanQuote(_, _, _, _)
ScanQuote(q, started_with, i, escaped) ==
    IF i > Len(q) THEN Token(Len(q), TOKEN_QUOTE)
    ELSE IF q[i] = started_with
         THEN IF escaped
              THEN ScanQuote(q, started_with, i + 1, FALSE)
              ELSE Token(i, TOKEN_QUOTE)
         ELSE IF q[i] = 92
              THEN ScanQuote(q, started_with, i + 1, TRUE)
              ELSE ScanQuote(q, started_with, i + 1, FALSE)

\* As ScanNumber, returning the index before the last digit.
RECURSIVE ScanNumber_shortByOne(_, _)
ScanNumber_shortByOne(q, i) ==
    IF i > Len(q) THEN Token(Len(q), TOKEN_NUMBER)
    ELSE IF IsDigit(q[i]) THEN ScanNumber_shortByOne(q, i + 1)
         ELSE Token(i - 2, TOKEN_NUMBER)

RECURSIVE ScanNumber(_, _)
ScanNumber(q, i) ==
    IF i > Len(q) THEN Token(Len(q), TOKEN_NUMBER)
    ELSE IF IsDigit(q[i]) THEN ScanNumber(q, i + 1)
         ELSE Token(i - 1, TOKEN_NUMBER)

RECURSIVE ScanWhitespace(_, _)
ScanWhitespace(q, i) ==
    IF i > Len(q) THEN Token(Len(q), TOKEN_WHITESPACE)
    ELSE IF IsSpace(q[i]) THEN ScanWhitespace(q, i + 1)
         ELSE Token(i - 1, TOKEN_WHITESPACE)

RECURSIVE ScanWord(_, _)
ScanWord(q, i) ==
    IF i > Len(q) THEN Token(Len(q), TOKEN_WORD)
    ELSE IF IsWordByte(q[i]) THEN ScanWord(q, i + 1)
         ELSE Token(i - 1, TOKEN_WORD)

\* scanToken(query) for a non-empty query; reads the verbose and noclean flags.
scanToken(q) ==
    IF verbose /\ noclean THEN Token(Len(q), TOKEN_OTHER)
    ELSE IF IsQuoteByte(q[1]) THEN ScanQuote(q, q[1], 2, FALSE)
    ELSE IF IsDigit(q[1]) THEN ScanNumber(q, 2)
    ELSE IF IsSpace(q[1]) THEN ScanWhitespace(q, 2)
    ELSE IF IsLetter(q[1]) THEN ScanWord(q, 2)
    ELSE Token(1, TOKEN_OTHER)

----------------------------------------------------------------------------
(* cleanupQuery                                                            *)

\* As Emit, with quoted literals passed through.
Emit_quoteVerbatim(toktype, text) ==
    IF toktype \in {TOKEN_WORD, TOKEN_OTHER, TOKEN_QUOTE} THEN text
    ELSE IF toktype = TOKEN_NUMBER THEN <<63>>
    ELSE <<32>>

\* What the token loop appends to qspace for one token.
Emit(toktype, text) ==
    IF toktype \in {TOKEN_WORD, TOKEN_OTHER} THEN text
    ELSE IF toktype \in {TOKEN_NUMBER, TOKEN_QUOTE} THEN <<63>>
    ELSE <<32>>

\* The token loop: qspace for the query from 0-based offset i on.
RECURSIVE Qspace(_, _)
Qspace(q, i) ==
    IF i >= Len(q) THEN <<>>
    ELSE LET tok == scanToken(Drop(q, i))
         IN  <<Emit(tok.thistype, SubSeq(q, i + 1, i + tok.length))>>
                 \o Qspace(q, i + tok.length)

\* strings.Index for a one-byte separator: 1-based position, 0 when absent.
RECURSIVE IndexByte(_, _, _)
IndexByte(s, sep, i) ==
    IF i > Len(s) THEN 0
    ELSE IF s[i] = sep THEN i ELSE IndexByte(s, sep, i + 1)

Contains(s, sep) == IndexByte(s, sep, 1) # 0

\* strings.SplitN(s, sep, n) for a one-byte separator and n > 0.
RECURSIVE SplitN(_, _, _)
SplitN(s, sep, n) ==
    IF n <= 1 \/ ~Contains(s, sep) THEN <<s>>
    ELSE <<SubSeq(s, 1, IndexByte(s, sep, 1) - 1)>>
             \o SplitN(Drop(s, IndexByte(s, sep, 1)), sep, n - 1)

\* strings.Replace(s, "?, ", "", -1)
RECURSIVE RemovePlaceholderLists(_)
RemovePlaceholderLists(s) ==
    IF Len(s) < 3 THEN s
    ELSE IF SubSeq(s, 1, 3) = <<63, 44, 32>>
         THEN RemovePlaceholderLists(Drop(s, 3))
         ELSE <<s[1]>> \o RemovePlaceholderLists(Tail(s))

RouteOpen  == <<47, 42>>    \* "/*"
RouteClose == <<42, 47>>    \* "*/"

\* As StripRouteHost, cutting the annotation at the colon instead of after it.
StripRouteHost_keepsColon(tmp) ==
    LET parts == SplitN(tmp, 32, 5)
    IN  IF Len(parts) >= 5 /\ parts[2] = RouteOpen /\ parts[4] = RouteClose
           /\ Contains(parts[3], 58)
        THEN parts[1] \o <<32, 47, 42, 32>>
                 \o Drop(parts[3], IndexByte(parts[3], 58, 1) - 1)
                 \o <<32, 42, 47, 32>> \o parts[5]
        ELSE tmp

\* The route rewrite of cleanupQuery on the joined text.
StripRouteHost(tmp) ==
    LET parts == SplitN(tmp, 32, 5)
    IN  IF Len(parts) >= 5 /\ parts[2] = RouteOpen /\ parts[4] = RouteClose
           /\ Contains(parts[3], 58)
        THEN parts[1] \o <<32, 47, 42, 32>> \o SplitN(parts[3], 58, 2)[2]
                 \o <<32, 42, 47, 32>> \o parts[5]
        ELSE tmp

cleanupQuery(q) == RemovePlaceholderLists(StripRouteHost(Concat(Qspace(q, 0))))

----------------------------------------------------------------------------
(* calculateTimes, in nanoseconds (before the division by 1000000).        *)

\* The scan loop over slots i..TIME_BUCKETS with the running locals in acc.
RECURSIVE ScanTimes(_, _, _)
ScanTimes(t, i, acc) ==
    IF i > Len(t) THEN acc
    ELSE IF t[i] = 0 THEN ScanTimes(t, i + 1, acc)
    ELSE ScanTimes(t, i + 1,
            [has_min |-> TRUE,
             min     |-> IF t[i] < acc.min \/ ~acc.has_min THEN t[i] ELSE acc.min,
             max     |-> IF t[i] > acc.max THEN t[i] ELSE acc.max,
             counts  |-> acc.counts + 1,
             total   |-> acc.total + t[i]])

\* As Average, dividing by the number of slots instead of the filled ones.
Average_overAllSlots(total, counts) ==
    IF counts > 0 THEN total \div TIME_BUCKETS ELSE 0

Average(total, counts) == IF counts > 0 THEN total \div counts ELSE 0

calculateTimes(t) ==
    LET acc == ScanTimes(t, 1, [has_min |-> FALSE, min |-> 0, max |-> 0,
                                counts |-> 0, total |-> 0])
    IN  [fmin |-> acc.min, favg |-> Average(acc.total, acc.counts),
         fmax |-> acc.max, counts |-> acc.counts]

----------------------------------------------------------------------------
(* Sources, format programs and the aggregation text.                      *)

Sources == 1..NumSources

\* rs.src, "ip:port": the remote endpoints "10.0.0.<id>:5".
Src(id) == <<49, 48, 46, 48, 46, 48, 46, 48 + id, 58, 53>>

\* rs.srcip = src[0:strings.Index(src, ":")]
SrcIp(id) == SubSeq(Src(id), 1, IndexByte(Src(id), 58, 1) - 1)

NoTime == -1    \* rs.reqSent == nil
NoSlot == 0     \* no slot drawn by rand.Intn in this call

NilRef == [isnil |-> TRUE, key |-> <<>>]

Ref(key) == [isnil |-> FALSE, key |-> key]

ZeroTimes == [i \in 1..TIME_BUCKETS |-> 0]

\* &source{src: src, srcip: srcip, synced: false}
NewSource ==
    [synced |-> FALSE, reqbuffer |-> NilSlice, resbuffer |-> NilSlice,
     reqSent |-> NoTime, reqTimes |-> ZeroTimes, qbytes |-> 0,
     qdata |-> NilRef, qtext |-> <<>>]

\* &queryData{}
NewQueryData == [count |-> 0, bytes |-> 0, times |-> ZeroTimes]

FInt(c) == [int |-> c]

FStr(t) == [str |-> t]

\* The F_ROUTE case of processPacket.
ExtractRoute(pdata) ==
    LET parts == SplitN(pdata, 32, 5)
    IN  IF Len(parts) >= 4 /\ parts[2] = RouteOpen /\ parts[4] = RouteClose
        THEN IF Contains(parts[3], 58)
             THEN SplitN(parts[3], 58, 2)[2]
             ELSE parts[3]
        ELSE <<40, 117, 110, 107, 110, 111, 119, 110, 41, 32>>
                 \o cleanupQuery(pdata)

\* What one item of the format program adds to the text.
ItemText(item, id, pdata) ==
    IF "str" \in DOMAIN item THEN item.str
    ELSE IF item.int = F_QUERY
         THEN IF dirty THEN pdata ELSE cleanupQuery(pdata)
    ELSE IF item.int = F_ROUTE THEN ExtractRoute(pdata)
    ELSE IF item.int = F_SOURCE THEN Src(id)
    ELSE SrcIp(id)

\* The format loop of processPacket.
RECURSIVE BuildText(_, _, _)
BuildText(fmt, id, pdata) ==
    IF fmt = <<>> THEN <<>>
    ELSE ItemText(Head(fmt), id, pdata) \o BuildText(Tail(fmt), id, pdata)

----------------------------------------------------------------------------
(* processPacket, stage by stage.                                          *)

\* The branch at the top of the request path: a response buffer is still held.
Desynced(rs, request) == request /\ ~rs.resbuffer.isnil

\* As Buffered, keeping the bytes of a response in resbuffer.
Buffered_keepsResponse(rs, request, c) ==
    IF request
    THEN [rs EXCEPT !.resbuffer = NilSlice,
                    !.synced = IF Desynced(rs, request) THEN FALSE ELSE @,
                    !.reqbuffer = c.buf]
    ELSE [rs EXCEPT !.resbuffer = c.data]

\* The source after the buffer stage, c being carvePacket's result.
Buffered(rs, request, c) ==
    IF request
    THEN [rs EXCEPT !.resbuffer = NilSlice,
                    !.synced = IF Desynced(rs, request) THEN FALSE ELSE @,
                    !.reqbuffer = c.buf]
    ELSE [rs EXCEPT !.resbuffer = NilSlice]

\* As SyncGate, letting any carved request synchronise the source.
SyncGate_anyRequest(rs1, request, ptype) ==
    IF ~rs1.synced
    THEN IF ~(request /\ ptype # -1)
         THEN [ret |-> TRUE,
               rs  |-> [rs1 EXCEPT !.reqbuffer = NilSlice, !.resbuffer = NilSlice]]
         ELSE [ret |-> FALSE, rs |-> [rs1 EXCEPT !.synced = TRUE]]
    ELSE [ret |-> FALSE, rs |-> rs1]

\* As SyncGate, with the synchronisation block left out.
SyncGate_removed(rs1, request, ptype) == [ret |-> FALSE, rs |-> rs1]

\* The synchronisation block: ret says the call returns here, rs is the
\* source as the block leaves it.
SyncGate(rs1, request, ptype) ==
    IF ~rs1.synced
    THEN IF ~(request /\ ptype = COM_QUERY)
         THEN [ret |-> TRUE,
               rs  |-> [rs1 EXCEPT !.reqbuffer = NilSlice, !.resbuffer = NilSlice]]
         ELSE [ret |-> FALSE, rs |-> [rs1 EXCEPT !.synced = TRUE]]
    ELSE [ret |-> FALSE, rs |-> rs1]

\* Which return of processPacket the call leaves by.
Kind(gate, request, ptype) ==
    IF gate.ret THEN "unsynced"
    ELSE IF ptype = -1 THEN "incomplete"
    ELSE IF ~request
         THEN IF gate.rs.reqSent = NoTime THEN "trailing" ELSE "latency"
    ELSE "request"

\* As Measured, leaving the request time in place.
Measured_keepsTimer(rs2, randn, reqtime) ==
    [rs2 EXCEPT !.reqTimes[randn] = reqtime]

\* The source after the latency block: the sample stored, the request time
\* cleared.
Measured(rs2, randn, reqtime) ==
    [rs2 EXCEPT !.reqTimes[randn] = reqtime, !.reqSent = NoTime]

\* As Counted, starting the timer only when none is running.
Counted_keepsTimer(rs2, t, text, plen) ==
    [rs2 EXCEPT !.reqSent = IF @ = NoTime THEN t ELSE @, !.qtext = text,
                !.qdata = Ref(text), !.qbytes = plen]

\* As Counted, leaving the source's queryData pointer as it was.
Counted_forgetsQdata(rs2, t, text, plen) ==
    [rs2 EXCEPT !.reqSent = t, !.qtext = text, !.qbytes = plen]

\* The source after a request is counted: the timer started at t, the text,
\* queryData and size of the request kept.
Counted(rs2, t, text, plen) ==
    [rs2 EXCEPT !.reqSent = t, !.qtext = text, !.qdata = Ref(text),
                !.qbytes = plen]

\* As AddBytes, counting the response as one more request of the queryData.
AddBytes_countsResponse(qb, ref, plen) ==
    IF ref.isnil THEN qb
    ELSE [qb EXCEPT ![ref.key].bytes = @ + plen, ![ref.key].count = @ + 1]

\* qbuf after the bytes of a response are added to the source's queryData.
AddBytes(qb, ref, plen) ==
    IF ref.isnil THEN qb
    ELSE [qb EXCEPT ![ref.key].bytes = @ + plen]

\* As AddLatency, with a slot of its own for the queryData's array.
AddLatency_otherSlot(qb, ref, randn, reqtime, plen) ==
    IF ref.isnil THEN qb
    ELSE [qb EXCEPT ![ref.key].times[(randn % TIME_BUCKETS) + 1] = reqtime,
                    ![ref.key].bytes = @ + plen]

\* qbuf after a latency is stored in the source's queryData.
AddLatency(qb, ref, randn, reqtime, plen) ==
    IF ref.isnil THEN qb
    ELSE [qb EXCEPT ![ref.key].times[randn] = reqtime,
                    ![ref.key].bytes = @ + plen]

\* As CountRequest, storing a fresh queryData without looking the text up.
CountRequest_overwrites(qb, text, plen) ==
    [k \in DOMAIN qb \cup {text} |->
        IF k = text
        THEN [NewQueryData EXCEPT !.count = @ + 1, !.bytes = @ + plen]
        ELSE qb[k]]

\* qbuf after a request with this text is counted.
CountRequest(qb, text, plen) ==
    LET qdata == IF text \in DOMAIN qb THEN qb[text] ELSE NewQueryData
    IN  [k \in DOMAIN qb \cup {text} |->
            IF k = text
            THEN [qdata EXCEPT !.count = @ + 1, !.bytes = @ + plen]
            ELSE qb[k]]

----------------------------------------------------------------------------
(* Inputs.                                                                 *)

DefaultFormat == <<FInt(F_SOURCE), FStr(<<58>>), FInt(F_QUERY)>>    \* "#s:#q"

\* The flag and format settings the runs start from.
Configs ==
    { [verbose |-> FALSE, noclean |-> FALSE, dirty |-> FALSE, format |-> DefaultFormat],
      [verbose |-> FALSE, noclean |-> FALSE, dirty |-> TRUE,  format |-> <<FInt(F_QUERY)>>] }

QueryA      == <<2, 0, 0, 0, 3, 97>>      \* COM_QUERY "a"
Query1      == <<2, 0, 0, 0, 3, 49>>      \* COM_QUERY "1"
QueryHead   == <<2, 0, 0, 0, 3>>          \* COM_QUERY frame missing its last byte
QueryTail   == <<97>>                     \* the byte QueryHead is missing
Ping        == <<1, 0, 0, 0, 14>>         \* a complete COM_PING frame
TwoQueries  == Query1 \o QueryA           \* two frames in one chunk

RequestChunks == {QueryA, TwoQueries, QueryHead, QueryTail, Ping}

ResponseChunks == { <<7, 0, 0, 1, 0, 0, 0, 2, 0, 0, 0>>, <<5>> }

----------------------------------------------------------------------------
(* handlePacket followed by processPacket.                                 *)

Put(m, id, v) == [k \in DOMAIN m \cup {id} |-> IF k = id THEN v ELSE m[k]]

Call(id, request, data, ptype, kind, desync, randn, reqtime, text) ==
    [id |-> id, request |-> request, data |-> data, ptype |-> ptype,
     kind |-> kind, desync |-> desync, randn |-> randn, reqtime |-> reqtime,
     text |-> text]

NoCall == Call(0, FALSE, <<>>, -1, "none", FALSE, NoSlot, 0, <<>>)

HandlePacket(id, request, data) ==
    /\ pc = "run"
    /\ Len(data) > 0
    /\ stats.rcvd < MaxPackets
    /\ \E t \in now..(IF now < MaxTime THEN now + 1 ELSE now) :
        LET isnew == id \notin DOMAIN chmap
            rs    == IF isnew THEN NewSource ELSE chmap[id]
            c     == IF request THEN carvePacket(Slice(data))
                     ELSE [ptype |-> 0, data |-> Slice(data), buf |-> rs.reqbuffer]
            rs1   == Buffered(rs, request, c)
            gate  == SyncGate(rs1, request, c.ptype)
            kind  == Kind(gate, request, c.ptype)
            rs2   == gate.rs
            plen  == Len(c.data.b)
            text  == BuildText(format, id, c.data.b)
            des   == Desynced(rs, request)
        IN  /\ now' = t
            /\ stats' = [stats EXCEPT !.rcvd = @ + 1,
                            !.rcvd_sync = IF rs.synced THEN @ + 1 ELSE @,
                            !.desyncs = IF des THEN @ + 1 ELSE @,
                            !.streams = IF isnew THEN @ + 1 ELSE @]
            /\ CASE kind = "unsynced" ->
                      /\ chmap' = Put(chmap, id, rs2)
                      /\ last' = Call(id, request, data, c.ptype, kind, des, NoSlot, 0, <<>>)
                      /\ UNCHANGED <<qbuf, querycount, times, latencies>>
                 [] kind = "incomplete" ->
                      /\ chmap' = Put(chmap, id, rs2)
                      /\ last' = Call(id, request, data, c.ptype, kind, des, NoSlot, 0, <<>>)
                      /\ UNCHANGED <<qbuf, querycount, times, latencies>>
                 [] kind = "trailing" ->
                      /\ chmap' = Put(chmap, id, rs2)
                      /\ qbuf' = AddBytes(qbuf, rs2.qdata, plen)
                      /\ last' = Call(id, request, data, c.ptype, kind, des, NoSlot, 0, <<>>)
                      /\ UNCHANGED <<querycount, times, latencies>>
                 [] kind = "latency" ->
                      \E randn \in 1..TIME_BUCKETS :
                        LET reqtime == t - rs2.reqSent
                        IN  /\ chmap' = Put(chmap, id, Measured(rs2, randn, reqtime))
                            /\ times' = [times EXCEPT ![randn] = reqtime]
                            /\ latencies' = latencies + 1
                            /\ qbuf' = AddLatency(qbuf, rs2.qdata, randn, reqtime, plen)
                            /\ last' = Call(id, request, data, c.ptype, kind, des,
                                            randn, reqtime, <<>>)
                            /\ UNCHANGED querycount
                 [] kind = "request" ->
                      /\ chmap' = Put(chmap, id, Counted(rs2, t, text, plen))
                      /\ querycount' = querycount + 1
                      /\ qbuf' = CountRequest(qbuf, text, plen)
                      /\ last' = Call(id, request, data, c.ptype, kind, des, NoSlot, 0, text)
                      /\ UNCHANGED <<times, latencies>>
    /\ UNCHANGED <<pc, cfgVars, carveVars, canonVars, scanVars, sumVars, repVars>>

\* A packet whose destination port is the MySQL port.
Request(id, data) == HandlePacket(id, TRUE, data)

\* A packet whose source port is the MySQL port.
Response(id, data) == HandlePacket(id, FALSE, data)

----------------------------------------------------------------------------
(* Specifications.                                                         *)

InitProg ==
    /\ chmap = <<>>
    /\ qbuf = <<>>
    /\ querycount = 0
    /\ times = ZeroTimes
    /\ stats = [rcvd |-> 0, rcvd_sync |-> 0, desyncs |-> 0, streams |-> 0]
    /\ now = 0
    /\ last = NoCall
    /\ latencies = 0

InitCfg(c) ==
    /\ verbose = c.verbose
    /\ noclean = c.noclean
    /\ dirty = c.dirty
    /\ format = c.format

IdleCarve == buf0 = NilSlice /\ buf = NilSlice /\ carved = [ptype |-> -1, data |-> NilSlice]

IdleCanon == query = <<>> /\ canon = <<>> /\ canon2 = <<>> /\ route = <<>>

IdleScan == scanpos = 0 /\ scanned = Token(0, TOKEN_OTHER) /\ scans = 0

IdleTimes == timings = ZeroTimes /\ summary = [fmin |-> 0, favg |-> 0, fmax |-> 0, counts |-> 0]

IdleReport ==
    /\ displaycount = 0 /\ sortby = "count" /\ cutoff = 0 /\ elapsed = 0
    /\ report = <<>>

\* The sniffer: packets of either direction arrive for any source.
Init ==
    /\ pc = "run"
    /\ \E c \in Configs : InitCfg(c)
    /\ InitProg /\ IdleCarve /\ IdleCanon /\ IdleScan /\ IdleTimes /\ IdleReport

Next ==
    \E id \in Sources :
        \/ \E data \in RequestChunks : Request(id, data)
        \/ \E data \in ResponseChunks : Response(id, data)

Spec == Init /\ [][Next]_vars

----------------------------------------------------------------------------
(* carvePacket on its own: any buffer, carved again and again.             *)

CarveBytes == {0, 1, 2, 3}

CarveInputs == {Slice(b) : b \in SeqsUpTo(CarveBytes, MaxBufLen)}

InitCarve ==
    /\ pc = "init"
    /\ InitCfg([verbose |-> FALSE, noclean |-> FALSE, dirty |-> FALSE,
                format |-> DefaultFormat])
    /\ InitProg /\ IdleCanon /\ IdleScan /\ IdleTimes /\ IdleReport
    /\ buf0 \in CarveInputs
    /\ buf = buf0
    /\ carved = [ptype |-> -1, data |-> NilSlice]

\* ptype, data = carvePacket(&buf); buf0 keeps the buffer as it was before.
Carve ==
    /\ pc \in {"init", "carved"}
    /\ pc' = "carved"
    /\ buf0' = buf
    /\ buf' = carvePacket(buf).buf
    /\ carved' = [ptype |-> carvePacket(buf).ptype, data |-> carvePacket(buf).data]
    /\ UNCHANGED <<cfgVars, progVars, canonVars, scanVars, sumVars, repVars>>

NextCarve == Carve

SpecCarve == InitCarve /\ [][NextCarve]_vars

----------------------------------------------------------------------------
(* cleanupQuery on its own, applied to a query and then to its own output. *)

QueryBytes == {39, 92, 49, 97, 32, 9, 63, 44}    \* ' \ 1 a space tab ? ,

\* "SELECT * FROM t WHERE id=42 AND name='bob'"
SelectQuery ==
    <<83, 69, 76, 69, 67, 84, 32, 42, 32, 70, 82, 79, 77, 32, 116, 32, 87, 72,
      69, 82, 69, 32, 105, 100, 61, 52, 50, 32, 65, 78, 68, 32, 110, 97, 109,
      101, 61, 39, 98, 111, 98, 39>>

\* "SELECT /* host1:routeA */ * FROM t"
RouteQuery ==
    <<83, 69, 76, 69, 67, 84, 32, 47, 42, 32, 104, 111, 115, 116, 49, 58, 114,
      111, 117, 116, 101, 65, 32, 42, 47, 32, 42, 32, 70, 82, 79, 77, 32, 116>>

\* "SELECT /* db:web:home */ 1"
NestedRouteQuery ==
    <<83, 69, 76, 69, 67, 84, 32, 47, 42, 32, 100, 98, 58, 119, 101, 98, 58,
      104, 111, 109, 101, 32, 42, 47, 32, 49>>

\* "SELECT /* db: */ 1"
EmptyRouteQuery ==
    <<83, 69, 76, 69, 67, 84, 32, 47, 42, 32, 100, 98, 58, 32, 42, 47, 32, 49>>

\* "IN (1, 2, 3)"
ListQuery == <<73, 78, 32, 40, 49, 44, 32, 50, 44, 32, 51, 41>>

\* "f(??, , 1)"
MarkerListQuery == <<102, 40, 63, 63, 44, 32, 44, 32, 49, 41>>

\* "a\t\n \"x\\\"y\" b"
EscapedQuery == <<97, 9, 10, 32, 34, 120, 92, 34, 121, 34, 32, 98>>

\* "X /* host:route */"
FourFieldRouteQuery ==
    <<88, 32, 47, 42, 32, 104, 111, 115, 116, 58, 114, 111, 117, 116, 101, 32,
      42, 47>>

\* Queries "<head> /* <body> */<tail>".
RouteInputs ==
    { head \o <<32, 47, 42, 32>> \o body \o <<32, 42, 47>> \o tail :
        head \in { <<88>>, <<97, 49>> },
        body \in { <<104, 58, 114>>, <<104, 58, 114, 58, 115>>, <<114>>,
                   <<104, 58>>, <<104, 58, 49, 50>> },
        tail \in { <<>>, <<32>>, <<32, 49>>, <<32, 121, 32, 122>> } }

QueryInputs ==
    SeqsUpTo(QueryBytes, MaxQueryLen)
        \cup {SelectQuery, RouteQuery, NestedRouteQuery, EmptyRouteQuery,
              ListQuery, MarkerListQuery, EscapedQuery, FourFieldRouteQuery}
        \cup RouteInputs

CanonConfigs ==
    { [verbose |-> FALSE, noclean |-> FALSE, dirty |-> FALSE, format |-> DefaultFormat],
      [verbose |-> TRUE,  noclean |-> TRUE,  dirty |-> FALSE, format |-> DefaultFormat] }

InitCanon ==
    /\ pc = "init"
    /\ \E c \in CanonConfigs : InitCfg(c)
    /\ InitProg /\ IdleCarve /\ IdleScan /\ IdleTimes /\ IdleReport
    /\ query \in QueryInputs
    /\ canon = <<>>
    /\ canon2 = <<>>
    /\ route = <<>>

\* canon = cleanupQuery(query)
Cleanup ==
    /\ pc = "init"
    /\ pc' = "clean"
    /\ canon' = cleanupQuery(query)
    /\ UNCHANGED <<query, canon2, route, cfgVars, progVars, carveVars, scanVars,
                   sumVars, repVars>>

\* canon2 = cleanupQuery(canon)
CleanupAgain ==
    /\ pc = "clean"
    /\ pc' = "again"
    /\ canon2' = cleanupQuery(canon)
    /\ UNCHANGED <<query, canon, route, cfgVars, progVars, carveVars, scanVars,
                   sumVars, repVars>>

\* The F_ROUTE item of a format applied to the query that F_QUERY cleaned.
Route ==
    /\ pc = "clean"
    /\ pc' = "routed"
    /\ route' = ExtractRoute(query)
    /\ UNCHANGED <<query, canon, canon2, cfgVars, progVars, carveVars, scanVars,
                   sumVars, repVars>>

NextCanon == Cleanup \/ CleanupAgain \/ Route

SpecCanon == InitCanon /\ [][NextCanon]_vars

----------------------------------------------------------------------------
(* The token loop of cleanupQuery, one scanToken call per step.            *)

ScanBytes == {39, 34, 92, 97, 49, 32}    \* ' " \ a 1 space

ScanInputs == SeqsUpTo(ScanBytes, MaxQueryLen)

InitScan ==
    /\ pc = "init"
    /\ \E c \in CanonConfigs : InitCfg(c)
    /\ InitProg /\ IdleCarve /\ IdleTimes /\ IdleReport
    /\ query \in ScanInputs
    /\ canon = <<>>
    /\ canon2 = <<>>
    /\ route = <<>>
    /\ IdleScan

\* length, toktype := scanToken(query[i:]); i += length
Scan ==
    /\ pc \in {"init", "scan"}
    /\ scanpos < Len(query)
    /\ pc' = "scan"
    /\ scanned' = scanToken(Drop(query, scanpos))
    /\ scanpos' = scanpos + scanned'.length
    /\ scans' = scans + 1
    /\ UNCHANGED <<cfgVars, progVars, carveVars, canonVars, sumVars, repVars>>

\* The loop condition i < len(query) fails.
ScanDone ==
    /\ pc \in {"init", "scan"}
    /\ ~(scanpos < Len(query))
    /\ pc' = "done"
    /\ UNCHANGED <<cfgVars, progVars, carveVars, canonVars, scanVars, sumVars,
                   repVars>>

NextScan == Scan \/ ScanDone

SpecScan == InitScan /\ [][NextScan]_vars

----------------------------------------------------------------------------
(* calculateTimes on its own.                                              *)

InitTimes ==
    /\ pc = "init"
    /\ InitCfg([verbose |-> FALSE, noclean |-> FALSE, dirty |-> FALSE,
                format |-> DefaultFormat])
    /\ InitProg /\ IdleCarve /\ IdleCanon /\ IdleScan /\ IdleReport
    /\ timings \in [1..TIME_BUCKETS -> 0..MaxSample]
    /\ summary = [fmin |-> 0, favg |-> 0, fmax |-> 0, counts |-> 0]

\* summary = calculateTimes(&timings)
Summarize ==
    /\ pc = "init"
    /\ pc' = "summed"
    /\ summary' = calculateTimes(timings)
    /\ UNCHANGED <<timings, cfgVars, progVars, carveVars, canonVars, scanVars,
                   repVars>>

NextTimes == Summarize

SpecTimes == InitTimes /\ [][NextTimes]_vars

----------------------------------------------------------------------------
(* handleStatusUpdate on its own: the lines it prints for one registry.    *)

\* qps < float64(cutoff), with qps = count / elapsed (+Inf when elapsed is 0).
BelowCutoff(c, el, cut) == el > 0 /\ c.count < cut * el

\* bavg := uint64(float64(c.bytes) / float64(c.count))
AvgBytes(c) == c.bytes \div c.count

\* The value the entries are sorted by; the times in nanoseconds, which
\* order as the milliseconds of the source do.
SortMetric(c, by) ==
    IF by = "avg" THEN calculateTimes(c.times).favg
    ELSE IF by = "max" THEN calculateTimes(c.times).fmax
    ELSE IF by = "maxbytes" THEN c.bytes
    ELSE IF by = "avgbytes" THEN AvgBytes(c)
    ELSE c.count

\* The texts whose entry is appended to tmp.
Kept(qb, el, cut) == {q \in DOMAIN qb : ~BelowCutoff(qb[q], el, cut)}

\* sortable{sorted, line}: the line stands for the text it ends with.
Sortable(qb, q, by) == [value |-> SortMetric(qb[q], by), line |-> q]

\* sortableSlice.Less
Less(a, b) == a.value < b.value

\* What sort.Sort may leave in tmp: the map is ranged over in any order and
\* the sort is not stable, so any order with no entry Less than one before it.
SortedSlices(qb, el, cut, by) ==
    LET K == Kept(qb, el, cut)
        n == Cardinality(K)
    IN  { [i \in 1..n |-> Sortable(qb, f[i], by)] :
            f \in {g \in [1..n -> K] :
                      /\ \A i, j \in 1..n : i # j => g[i] # g[j]
                      /\ \A i, j \in 1..n :
                            i < j => ~Less(Sortable(qb, g[j], by),
                                           Sortable(qb, g[i], by))} }

\* As Emitted, reading tmp from its first entry on.
Emitted_fromLowEnd(tmp, dc) ==
    LET n == IF Len(tmp) < dc THEN Len(tmp) ELSE dc
    IN  [i \in 1..n |-> tmp[i]]

\* The entries printed, in the order printed.
Emitted(tmp, dc) ==
    LET n == IF Len(tmp) < dc THEN Len(tmp) ELSE dc
    IN  [i \in 1..n |-> tmp[Len(tmp) - i + 1]]

\* times arrays with samples a and b in the first two slots.
Samples(a, b) == [i \in 1..TIME_BUCKETS |-> IF i = 1 THEN a ELSE IF i = 2 THEN b ELSE 0]

AggregateShapes ==
    { [count |-> 1, bytes |-> 6, times |-> Samples(0, 0)],
      [count |-> 2, bytes |-> 6, times |-> Samples(3, 0)],
      [count |-> 2, bytes |-> 9, times |-> Samples(1, 5)],
      [count |-> 3, bytes |-> 4, times |-> Samples(2, 0)] }

ReportKeys == { <<97>>, <<98>>, <<63>> }

Registries == UNION { [K -> AggregateShapes] : K \in SUBSET ReportKeys }

SortKeys == {"count", "avg", "max", "maxbytes", "avgbytes", "none"}

RECURSIVE TotalCount(_, _)
TotalCount(qb, K) ==
    IF K = {} THEN 0
    ELSE LET k == CHOOSE x \in K : TRUE IN qb[k].count + TotalCount(qb, K \ {k})

InitReport ==
    /\ pc = "init"
    /\ InitCfg([verbose |-> FALSE, noclean |-> FALSE, dirty |-> FALSE,
                format |-> <<FInt(F_QUERY)>>])
    /\ chmap = <<>>
    /\ qbuf \in Registries
    /\ querycount = TotalCount(qbuf, DOMAIN qbuf)
    /\ times = ZeroTimes
    /\ stats = [rcvd |-> 0, rcvd_sync |-> 0, desyncs |-> 0, streams |-> 0]
    /\ now = 0
    /\ last = NoCall
    /\ latencies = 0
    /\ IdleCarve /\ IdleCanon /\ IdleScan /\ IdleTimes
    /\ displaycount \in 0..MaxDisplay
    /\ sortby \in SortKeys
    /\ cutoff \in 0..MaxCutoff
    /\ elapsed \in 0..MaxElapsed
    /\ report = <<>>

\* handleStatusUpdate(displaycount, sortby, cutoff): report is what the
\* final loop prints.
HandleStatusUpdate ==
    /\ pc = "init"
    /\ pc' = "reported"
    /\ \E tmp \in SortedSlices(qbuf, elapsed, cutoff, sortby) :
          report' = Emitted(tmp, displaycount)
    /\ UNCHANGED <<displaycount, sortby, cutoff, elapsed, cfgVars, progVars,
                   carveVars, canonVars, scanVars, sumVars>>

NextReport == HandleStatusUpdate

SpecReport == InitReport /\ [][NextReport]_vars

----------------------------------------------------------------------------
(* Properties of carvePacket (SpecCarve).                                  *)

\* The 24-bit little-endian length a buffer of at least 3 bytes declares.
DeclaredLength(b) == b[1] + 256 * b[2] + 65536 * b[3]

HoldsFrame(b) ==
    Len(b) >= 5 /\ DeclaredLength(b) > 0 /\ Len(b) >= DeclaredLength(b) + 4

\* C4: carvePacket returns -1 with no payload and leaves the buffer exactly
\* as it was whenever the buffer has fewer than 5 bytes, declares length 0,
\* or has fewer than L+4 bytes.
CarveIncompleteLeavesBuffer ==
    (pc = "carved" /\ ~HoldsFrame(buf0.b)) =>
        /\ carved.ptype = -1
        /\ carved.data = NilSlice
        /\ buf = buf0

\* A buffer of 5 bytes or more that declares more bytes than it holds.
CarveIncompleteWitness ==
    /\ pc = "carved"
    /\ Len(buf0.b) >= 5
    /\ DeclaredLength(buf0.b) > 0
    /\ Len(buf0.b) < DeclaredLength(buf0.b) + 4
    /\ carved.ptype = -1

\* C5: on a buffer that holds a whole frame of declared length L > 0,
\* carvePacket returns the byte at offset 4 as the command, the L-1 bytes at
\* offsets 5..L+3 as the payload, and leaves exactly the bytes from offset
\* L+4 on in the buffer.
CarveConsumesFrame ==
    (pc = "carved" /\ HoldsFrame(buf0.b)) =>
        LET L == DeclaredLength(buf0.b)
        IN  /\ carved.ptype = buf0.b[5]
            /\ Len(carved.data.b) = L - 1
            /\ \A i \in 1..(L - 1) : carved.data.b[i] = buf0.b[5 + i]
            /\ Len(buf.b) = Len(buf0.b) - (L + 4)
            /\ \A i \in 1..Len(buf.b) : buf.b[i] = buf0.b[L + 4 + i]

\* A frame with a payload was carved and bytes trail it.
CarveConsumesWitness ==
    /\ pc = "carved"
    /\ HoldsFrame(buf0.b)
    /\ Len(carved.data.b) > 0
    /\ Len(buf.b) > 0

----------------------------------------------------------------------------
(* Properties of calculateTimes (SpecTimes).                               *)

NonZeroSlots(t) == {i \in DOMAIN t : t[i] # 0}

RECURSIVE SumOver(_, _)
SumOver(t, S) ==
    IF S = {} THEN 0
    ELSE LET i == CHOOSE j \in S : TRUE IN t[i] + SumOver(t, S \ {i})

\* C8: calculateTimes ignores zero slots; min and max are the smallest and
\* largest non-zero slot and avg is the floor of their sum over their number,
\* so min <= avg <= max; all three are 0 when every slot is zero and all
\* three are v when v is the only non-zero slot.
SummaryOfNonZeroSlots ==
    pc = "summed" =>
        LET nz == NonZeroSlots(timings)
        IN  IF nz = {}
            THEN summary.fmin = 0 /\ summary.favg = 0 /\ summary.fmax = 0
            ELSE /\ \E i \in nz : summary.fmin = timings[i]
                 /\ \A i \in nz : summary.fmin <= timings[i]
                 /\ \E i \in nz : summary.fmax = timings[i]
                 /\ \A i \in nz : summary.fmax >= timings[i]
                 /\ summary.favg * Cardinality(nz) <= SumOver(timings, nz)
                 /\ SumOver(timings, nz) < (summary.favg + 1) * Cardinality(nz)
                 /\ summary.fmin <= summary.favg
                 /\ summary.favg <= summary.fmax
                 /\ Cardinality(nz) = 1 =>
                        summary.fmin = summary.favg /\ summary.favg = summary.fmax

\* An array with an empty slot and a filled one was summarised.
SummaryWitness ==
    /\ pc = "summed"
    /\ \E i \in DOMAIN timings : timings[i] = 0
    /\ \E i \in DOMAIN timings : timings[i] # 0
    /\ summary.favg # 0

----------------------------------------------------------------------------
(* Properties of cleanupQuery (SpecCanon).                                 *)

\* The tokens scanToken cuts the query into, from 0-based offset i on.
RECURSIVE TokensFrom(_, _)
TokensFrom(q, i) ==
    IF i >= Len(q) THEN <<>>
    ELSE LET tok == scanToken(Drop(q, i))
         IN  <<[thistype |-> tok.thistype, text |-> SubSeq(q, i + 1, i + tok.length)]>>
                 \o TokensFrom(q, i + tok.length)

\* The token mapping as stated: words and others verbatim, literals "?",
\* whitespace runs one space.
Placeholder(tok) ==
    CASE tok.thistype \in {TOKEN_WORD, TOKEN_OTHER} -> tok.text
      [] tok.thistype \in {TOKEN_QUOTE, TOKEN_NUMBER} -> <<63>>
      [] tok.thistype = TOKEN_WHITESPACE -> <<32>>

MappedTokens(q) ==
    LET toks == TokensFrom(q, 0)
    IN  Concat([i \in 1..Len(toks) |-> Placeholder(toks[i])])

\* The text contains "?, ".
HasPlaceholderList(s) ==
    \E i \in 1..(Len(s) - 2) : s[i] = 63 /\ s[i + 1] = 44 /\ s[i + 2] = 32

\* The text has five space-separated fields "X /* host:route */ rest".
HasRouteHost(s) ==
    LET fields == SplitN(s, 32, 5)
    IN  /\ Len(fields) = 5
        /\ fields[2] = <<47, 42>>
        /\ fields[4] = <<42, 47>>
        /\ \E i \in 1..Len(fields[3]) : fields[3][i] = 58

\* No quote delimiter and no whitespace byte but the space.
OnlySpaces(s) == \A i \in 1..Len(s) : s[i] \notin {39, 34, 9, 10, 11, 12, 13}

\* "SELECT * FROM t WHERE id=? AND name=?"
SelectCanon ==
    <<83, 69, 76, 69, 67, 84, 32, 42, 32, 70, 82, 79, 77, 32, 116, 32, 87, 72,
      69, 82, 69, 32, 105, 100, 61, 63, 32, 65, 78, 68, 32, 110, 97, 109, 101,
      61, 63>>

Tokenizing == ~(verbose /\ noclean)

\* C6 as stated: the output of cleanupQuery is the token stream with words
\* and others verbatim, each literal a "?" and each whitespace run a space,
\* and so holds no quote delimiter and no whitespace byte but the space.
CanonIsTokenMap ==
    pc # "init" => canon = MappedTokens(query) /\ OnlySpaces(canon)

\* C6 amended: with tokenizing on, the output holds no quote delimiter and no
\* whitespace byte but the space, the SELECT example yields the stated text,
\* and the output is the mapped token stream whenever that stream holds no
\* "?, " and no route annotation with a host; with tokenizing off the query
\* is one verbatim token.
CanonMapsTokensThenRewrites ==
    pc # "init" =>
        /\ Tokenizing => OnlySpaces(canon)
        /\ (Tokenizing /\ query = SelectQuery) => canon = SelectCanon
        /\ ~Tokenizing => MappedTokens(query) = query
        /\ (~HasPlaceholderList(MappedTokens(query)) /\ ~HasRouteHost(MappedTokens(query)))
               => canon = MappedTokens(query)

\* A query with a word, a number, a quoted literal and whitespace went through.
CanonMapsWitness ==
    /\ pc = "clean"
    /\ Tokenizing
    /\ query = SelectQuery
    /\ canon = SelectCanon

HasDoubleSpace(s) == \E i \in 1..(Len(s) - 1) : s[i] = 32 /\ s[i + 1] = 32

----------------------------------------------------------------------------
(* Properties of the synchronisation state machine (Spec).                 *)

\* The source behind an endpoint; one not yet seen is as handlePacket makes it.
Flow(id) == IF id \in DOMAIN chmap THEN chmap[id] ELSE NewSource

\* This step is a processPacket call for the endpoint.
PacketFor(id) == stats'.rcvd = stats.rcvd + 1 /\ last'.id = id

CountOf(qb, k) == IF k \in DOMAIN qb THEN qb[k].count ELSE 0

TimesOf(qb, k) == IF k \in DOMAIN qb THEN qb[k].times ELSE ZeroTimes

RECURSIVE SumCounts(_, _)
SumCounts(qb, K) ==
    IF K = {} THEN 0
    ELSE LET k == CHOOSE x \in K : TRUE IN qb[k].count + SumCounts(qb, K \ {k})

\* C1: an unsynced source stays unsynced until a request chunk that holds a
\* whole frame with command byte 3 arrives for it; that call synchronises it
\* and counts the request. Every other call for an unsynced source leaves it
\* unsynced with both buffers empty and changes no pending timer, no
\* queryData and not querycount.
SyncsOnlyOnCarvedQuery ==
    [][\A id \in Sources :
          ~Flow(id).synced =>
              IF /\ PacketFor(id)
                 /\ last'.request
                 /\ HoldsFrame(last'.data)
                 /\ last'.data[5] = COM_QUERY
              THEN Flow(id)'.synced /\ querycount' = querycount + 1
              ELSE /\ ~Flow(id)'.synced
                   /\ PacketFor(id) =>
                        /\ Len(Flow(id)'.reqbuffer.b) = 0
                        /\ Len(Flow(id)'.resbuffer.b) = 0
                        /\ \A j \in Sources : Flow(j)'.reqSent = Flow(j).reqSent
                        /\ qbuf' = qbuf
                        /\ querycount' = querycount
                        /\ times' = times]_vars

\* One source took packets while unsynced and its latest request synced it.
SyncedAfterUnsyncedWitness ==
    /\ stats.streams = 1
    /\ stats.rcvd >= 2
    /\ stats.rcvd_sync = 0
    /\ last.request
    /\ Flow(last.id).synced
    /\ querycount = 1

\* C2: the counts of all queryData sum to querycount and none is 0; a step
\* that counts a request adds one to the queryData of that request's text
\* and to no other, any other step changes no count, and no queryData is
\* ever removed.
CountsMatchRequests ==
    /\ [](/\ SumCounts(qbuf, DOMAIN qbuf) = querycount
          /\ \A k \in DOMAIN qbuf : qbuf[k].count >= 1)
    /\ [][/\ DOMAIN qbuf \subseteq DOMAIN qbuf'
          /\ querycount' \in {querycount, querycount + 1}
          /\ \A k \in DOMAIN qbuf' :
                CountOf(qbuf', k) =
                    CountOf(qbuf, k)
                      + (IF /\ querycount' # querycount
                            /\ \E id \in Sources : PacketFor(id) /\ k = Flow(id)'.qtext
                         THEN 1 ELSE 0)]_vars

\* Two texts are registered and one of them was requested twice.
CountsWitness ==
    /\ Cardinality(DOMAIN qbuf) >= 2
    /\ \E k \in DOMAIN qbuf : qbuf[k].count >= 2

\* C3: a step that stores a latency in the global array or in a queryData's
\* array is a call for a source that is synced before and after the call.
LatencyOnlyFromSyncedFlow ==
    [][(\/ times' # times
        \/ \E k \in DOMAIN qbuf' : TimesOf(qbuf', k) # TimesOf(qbuf, k)
        \/ last'.randn # NoSlot)
          => \E id \in Sources :
                PacketFor(id) /\ Flow(id).synced /\ Flow(id)'.synced]_vars

\* A latency above zero was stored in the global array and in a queryData.
LatencyWitness ==
    /\ last.randn # NoSlot
    /\ last.reqtime > 0
    /\ times[last.randn] = last.reqtime
    /\ ~Flow(last.id).qdata.isnil
    /\ qbuf[Flow(last.id).qdata.key].times[last.randn] = last.reqtime

\* C10 as stated: after a request chunk that held no whole frame was kept in
\* the buffer of a synced source, a request chunk that supplies the rest of
\* the frame gets the whole frame carved and counted as a request.
RestOfFrameCompletesRequest ==
    [][\A id \in Sources :
          (/\ Flow(id).synced
           /\ last.id = id /\ last.request /\ last.ptype = -1
           /\ Flow(id).reqbuffer.b = last.data
           /\ PacketFor(id) /\ last'.request
           /\ HoldsFrame(last.data \o last'.data))
            => /\ last'.ptype = (last.data \o last'.data)[5]
               /\ querycount' = querycount + 1]_vars

\* C11: a request chunk from which a frame is carved, arriving for a synced
\* source whose request time is still set, leaves the source synced and the
\* desync counter as it was, adds one to querycount and to the count of the
\* queryData of its text, and sets the request time to the time of this call.
\* The request time is changed by no call other than a counted request and a
\* latency measurement of the same source, and the measurement stores the
\* time elapsed since that request time and clears it, so that the response
\* after it measures nothing.
LaterRequestRestartsTimer ==
    [][\A id \in Sources :
          /\ (/\ Flow(id).synced /\ Flow(id).reqSent # NoTime
              /\ PacketFor(id) /\ last'.request /\ last'.ptype # -1)
                => /\ Flow(id)'.synced
                   /\ stats'.desyncs = stats.desyncs
                   /\ querycount' = querycount + 1
                   /\ CountOf(qbuf', Flow(id)'.qtext)
                        = CountOf(qbuf, Flow(id)'.qtext) + 1
                   /\ Flow(id)'.reqSent = now'
          /\ (/\ Flow(id).synced /\ Flow(id).reqSent # NoTime
              /\ PacketFor(id) /\ ~last'.request)
                => /\ last'.randn # NoSlot
                   /\ last'.reqtime = now' - Flow(id).reqSent
                   /\ latencies' = latencies + 1
                   /\ Flow(id)'.reqSent = NoTime
          /\ (/\ Flow(id).synced /\ Flow(id).reqSent = NoTime
              /\ PacketFor(id) /\ ~last'.request)
                => /\ last'.randn = NoSlot
                   /\ latencies' = latencies
          /\ Flow(id)'.reqSent # Flow(id).reqSent
                => /\ PacketFor(id)
                   /\ \/ last'.request /\ querycount' = querycount + 1
                      \/ ~last'.request /\ latencies' = latencies + 1]_vars

\* Two requests of one source were counted at times 0 and 1 with no response
\* between them, and the response at time 2 measured one unit.
LaterRequestWitness ==
    /\ stats.streams = 1
    /\ stats.rcvd = 3
    /\ querycount = 2
    /\ ~last.request
    /\ latencies = 1
    /\ now = 2
    /\ last.reqtime = 1

\* C12: a response chunk for a synced source with no request time set adds
\* its length to the bytes of the queryData the source points to and leaves
\* everything else of the registry, the global array, querycount and the
\* source itself as it was: no latency is stored, no count changes, the
\* source stays synced with no request time.
TrailingResponseAddsBytesOnly ==
    [][\A id \in Sources :
          (/\ Flow(id).synced /\ Flow(id).reqSent = NoTime
           /\ PacketFor(id) /\ ~last'.request)
            => /\ ~Flow(id).qdata.isnil
               /\ Flow(id).qdata.key \in DOMAIN qbuf
               /\ qbuf' = [qbuf EXCEPT ![Flow(id).qdata.key].bytes
                                          = @ + Len(last'.data)]
               /\ times' = times
               /\ querycount' = querycount
               /\ latencies' = latencies
               /\ Flow(id)' = Flow(id)
               /\ \A o \in Sources \ {id} : Flow(o)' = Flow(o)]_vars

\* A response followed the response that closed a request.
TrailingResponseWitness ==
    /\ stats.streams = 1
    /\ stats.rcvd = 3
    /\ stats.rcvd_sync = 2
    /\ ~last.request
    /\ last.randn = NoSlot
    /\ latencies = 1
    /\ Flow(last.id).synced
    /\ Flow(last.id).reqSent = NoTime
    /\ qbuf[Flow(last.id).qdata.key].bytes > Flow(last.id).qbytes + Len(last.data)

\* C13: a response chunk for a synced source with a request time set stores
\* the elapsed time in one slot, the same slot of the source's array, of the
\* global array and of the array of the queryData the source points to;
\* every other slot of the three arrays and all of every other queryData's
\* array stay as they were, and the request time is cleared.
LatencySharesOneSlot ==
    [][\A id \in Sources :
          (/\ Flow(id).synced /\ Flow(id).reqSent # NoTime
           /\ PacketFor(id) /\ ~last'.request)
            => \E i \in 1..TIME_BUCKETS :
                 LET v == now' - Flow(id).reqSent
                     k == Flow(id).qdata.key
                 IN  /\ ~Flow(id).qdata.isnil
                     /\ k \in DOMAIN qbuf
                     /\ Flow(id)'.reqTimes = [Flow(id).reqTimes EXCEPT ![i] = v]
                     /\ times' = [times EXCEPT ![i] = v]
                     /\ DOMAIN qbuf' = DOMAIN qbuf
                     /\ qbuf'[k].times = [qbuf[k].times EXCEPT ![i] = v]
                     /\ \A o \in DOMAIN qbuf \ {k} : qbuf'[o].times = qbuf[o].times
                     /\ Flow(id)'.reqSent = NoTime]_vars

\* A latency above zero sits in the same slot of the three arrays while two
\* texts are registered.
LatencySlotWitness ==
    /\ last.randn # NoSlot
    /\ last.reqtime > 0
    /\ Cardinality(DOMAIN qbuf) = 2
    /\ Flow(last.id).reqSent = NoTime
    /\ Flow(last.id).reqTimes[last.randn] = last.reqtime
    /\ times[last.randn] = last.reqtime
    /\ qbuf[Flow(last.id).qdata.key].times[last.randn] = last.reqtime

\* C18: the resbuffer of every source is nil in every reachable state, so no
\* call takes the desync branch, the desync counter is 0 throughout, and a
\* synced source is synced after every step.
ResbufferNeverHeld ==
    /\ [](/\ \A id \in DOMAIN chmap : chmap[id].resbuffer = NilSlice
          /\ stats.desyncs = 0
          /\ ~last.desync)
    /\ [][\A id \in Sources : Flow(id).synced => Flow(id)'.synced]_vars

\* A request reached a synced source after one of its responses had been
\* measured: the call that would take the desync branch were a response held.
RequestAfterResponseWitness ==
    /\ stats.streams = 1
    /\ stats.rcvd = 3
    /\ stats.rcvd_sync = 2
    /\ last.request
    /\ latencies = 1
    /\ querycount = 2
    /\ Flow(last.id).synced

CountersOrdered ==
    /\ [](/\ latencies <= querycount
          /\ querycount <= stats.rcvd
          /\ stats.rcvd_sync <= stats.rcvd)
    /\ [][/\ querycount' \in {querycount, querycount + 1}
          /\ latencies' \in {latencies, latencies + 1}
          /\ \A id \in Sources :
                /\ (PacketFor(id) /\ last'.request /\ Flow(id)'.synced)
                     => Flow(id)'.reqbuffer = carvePacket(Slice(last'.data)).buf
                /\ (PacketFor(id) /\ latencies' # latencies)
                     => /\ Flow(id).reqSent # NoTime
                        /\ Flow(id)'.reqSent = NoTime]_vars

\* A chunk of two whole frames was counted as one request, its second frame
\* left in the buffer, after an earlier request had been measured.
TwoFramesOneRequestWitness ==
    /\ last.request
    /\ last.data = TwoQueries
    /\ Flow(last.id).reqbuffer.b = QueryA
    /\ stats.rcvd = 3
    /\ querycount = 2
    /\ latencies = 1

----------------------------------------------------------------------------
(* Properties of scanToken and of the token loop (SpecScan).               *)

\* The byte at 1-based position i of q follows an odd run of backslashes:
\* it is escaped when a backslash escapes exactly the byte after it.
RECURSIVE EscapedAt(_, _)
EscapedAt(q, i) ==
    IF i <= 1 \/ q[i - 1] # 92 THEN FALSE ELSE ~EscapedAt(q, i - 1)

\* Where a quoted literal starting at q[1] ends: the first later delimiter
\* that is not escaped, or the end of q.
QuoteEnd(q) ==
    LET closing == {i \in 2..Len(q) : q[i] = q[1] /\ ~EscapedAt(q, i)}
    IN  IF closing = {} THEN Len(q)
        ELSE CHOOSE i \in closing : \A j \in closing : i <= j

\* C14 as stated: scanToken on a text that starts with a quote delimiter
\* returns a quoted-literal token that ends at the first later occurrence of
\* the same delimiter that is not escaped, a backslash escaping exactly the
\* byte after it, and that spans the whole text when there is none.
QuoteEndsAtFirstUnescapedDelimiter ==
    [][(/\ scans' = scans + 1
        /\ ~(verbose /\ noclean)
        /\ IsQuoteByte(query[scanpos + 1]))
          => /\ scanned'.thistype = TOKEN_QUOTE
             /\ scanned'.length = QuoteEnd(Drop(query, scanpos))]_vars

\* C17: every scanToken call of the token loop gets a non-empty rest of the
\* query and returns a length between 1 and the length of that rest with one
\* of the five token types; the loop position moves on by that length, never
\* passes the end of the query, and is at the end when the loop is left,
\* after at most len(query) calls.
TokenLoopCoversQuery ==
    /\ [](/\ scans <= Len(query)
          /\ scanpos <= Len(query)
          /\ (pc = "done" => scanpos = Len(query))
          /\ scanned.thistype \in {TOKEN_WORD, TOKEN_QUOTE, TOKEN_NUMBER,
                                   TOKEN_WHITESPACE, TOKEN_OTHER})
    /\ [][scans' # scans
            => /\ scans' = scans + 1
               /\ Len(Drop(query, scanpos)) >= 1
               /\ scanned'.length >= 1
               /\ scanned'.length <= Len(Drop(query, scanpos))
               /\ scanpos' = scanpos + scanned'.length]_vars

\* The loop was left after one call for each byte of a five-byte query.
TokenLoopWitness ==
    /\ pc = "done"
    /\ Len(query) = 5
    /\ scans = 5
    /\ scanpos = 5

----------------------------------------------------------------------------
(* The route annotation in cleanupQuery and in the F_ROUTE item (SpecCanon). *)

\* What follows the first colon of the annotation.
AfterColon(body) == Drop(body, IndexByte(body, 58, 1))

\* C15 as stated: when the space-separated fields of a query have "/*" as
\* fields[1], "*/" as fields[3] and a colon in fields[2], also when these
\* four are all its fields, cleanupQuery returns a text whose annotation is
\* what follows the first colon of fields[2] (as the token loop passes it
\* on), and the F_ROUTE item yields what follows that colon.
RouteAnnotationsAgree ==
    pc = "routed" =>
        LET f == SplitN(query, 32, 5)
            c == SplitN(canon, 32, 5)
        IN  (/\ Len(f) >= 4 /\ f[2] = RouteOpen /\ f[4] = RouteClose
             /\ Contains(f[3], 58))
              => /\ route = AfterColon(f[3])
                 /\ Len(c) >= 4 /\ c[2] = RouteOpen /\ c[4] = RouteClose
                 /\ c[3] = MappedTokens(AfterColon(f[3]))

----------------------------------------------------------------------------
(* Properties of handleStatusUpdate (SpecReport).                          *)

Min(a, b) == IF a < b THEN a ELSE b

\* count / elapsed >= cutoff, the quotient being +Inf when elapsed is 0.
RateReaches(c) == elapsed = 0 \/ c.count >= cutoff * elapsed

\* C16: the report holds min(displaycount, number of queryData whose
\* requests per second reach the cutoff) lines, no two for one text and none
\* for a text below the cutoff; the sort values of the lines never increase
\* down the report, and no text that reached the cutoff and was left out has
\* a sort value above that of a printed line.
ReportIsTopByMetric ==
    pc = "reported" =>
        LET passed  == {q \in DOMAIN qbuf : RateReaches(qbuf[q])}
            printed == {report[i].line : i \in 1..Len(report)}
        IN  /\ Len(report) = Min(displaycount, Cardinality(passed))
            /\ \A i, j \in 1..Len(report) :
                  i # j => report[i].line # report[j].line
            /\ printed \subseteq passed
            /\ \A i \in 1..Len(report) :
                  report[i].value = SortMetric(qbuf[report[i].line], sortby)
            /\ \A i, j \in 1..Len(report) :
                  i < j => report[i].value >= report[j].value
            /\ \A q \in passed \ printed : \A i \in 1..Len(report) :
                  SortMetric(qbuf[q], sortby) <= report[i].value

\* Of three registered texts one fell below the cutoff and one that reached
\* it was left out of a one-line report sorted by average latency.
ReportWitness ==
    /\ pc = "reported"
    /\ Cardinality(DOMAIN qbuf) = 3
    /\ Cardinality({q \in DOMAIN qbuf : RateReaches(qbuf[q])}) = 2
    /\ displaycount = 1
    /\ Len(report) = 1
    /\ sortby = "avg"
    /\ report[1].value > 0

====
